---- MODULE Spec2Model ----
(***************************************************************************)
(* Model of the DERPIn harmonization notebook (src/Derpin_Notebook.py) and *)
(* of the dashboard's threshold classifier (src/dashboard.py).             *)
(*                                                                         *)
(* Text is modelled as a sequence of tokens: 'nutrients/Iron.csv' is       *)
(* <<"nutrients/", "Iron", ".csv">>.  Concatenation is \o, str.replace     *)
(* removes or substitutes tokens, and the `in` substring test is           *)
(* containment of a token sub-sequence.  The tokens are cut so that every  *)
(* substring the code looks for is a whole number of tokens.               *)
(*                                                                         *)
(* A DataFrame is [cols |-> sequence of column names,                      *)
(*                 rows |-> sequence of rows, each a sequence of cells].   *)
(* Cells are strings, as in a CSV file; NaN is pandas' missing marker.     *)
(***************************************************************************)
EXTENDS Integers, Sequences, FiniteSets, TLC

\* ---------------------------------------------------------------- bounds
\* number of entries of csv_files that the model runs over
NumFiles == 2
\* largest number of data rows of a source file
MaxRows == 2
\* number of entries of the index `files` list that the model runs over
NumIndexFiles == 2
\* vulnerability values are 0 .. MaxValue hundredths
MaxValue == 100

\* ------------------------------------------------------- python strings
EmptyStr == <<>>

\* sub in s
Contains(s, sub) ==
  \E a \in 1..(Len(s) + 1) :
     /\ a + Len(sub) - 1 <= Len(s)
     /\ SubSeq(s, a, a + Len(sub) - 1) = sub

\* s.replace(old, new) for a one-token old
RECURSIVE Replace(_, _, _)
Replace(s, old, new) ==
  IF s = <<>> THEN <<>>
  ELSE IF Head(s) = old THEN new \o Replace(Tail(s), old, new)
  ELSE <<Head(s)>> \o Replace(Tail(s), old, new)

\* str.lower() of one token
LowerTok(t) ==
  CASE t = "District" -> "district"
    [] t = "DISTRICT" -> "district"
    [] t = "Name"     -> "name"
    [] t = "NAME"     -> "name"
    [] OTHER          -> t

LowerNoop(s) == s

\* str(col).lower()
Lower(s) == [a \in 1..Len(s) |-> LowerTok(s[a])]

\* dict.get(key, default)
DictGet(d, k, default) == IF k \in DOMAIN d THEN d[k] ELSE default

\* ----------------------------------------------- optional values (None)
None == <<>>
Some(x) == <<x>>
IsSome(o) == o # <<>>
Get(o) == o[1]

\* ------------------------------------------------------------ cell text
NaN == "NaN"

\* Python's order on the cell strings that occur (code point order:
\* digits before upper case before lower case)
StringOrder ==
  << "0.11", "0.12", "0.13", "0.21", "0.22", "0.23", "0.31", "0.32", "0.33",
     "1", "2", "3", "GULU", "KAMPALA", "Kampala" >>

Rank(c) == CHOOSE a \in 1..Len(StringOrder) : StringOrder[a] = c

StrLess(a, b) == Rank(a) < Rank(b)

\* the district / region names of the source files; "KAMPALA" and
\* "Kampala" differ only in letter case
Districts == {"GULU", "KAMPALA", "Kampala"}

\* the names that the files with the main layout draw their rows from
MainKeys == {"KAMPALA", "Kampala"}

\* the value text of row r of the file at position f of its list
ValueTexts ==
  << <<"0.11", "0.12", "0.13">>,
     <<"0.21", "0.22", "0.23">>,
     <<"0.31", "0.32", "0.33">> >>

\* the text of the running-number column of row r
IdTexts == <<"1", "2", "3">>

NumericCells ==
  {ValueTexts[f][r] : f \in 1..3, r \in 1..3} \cup {IdTexts[r] : r \in 1..3}

\* ----------------------------------------------------------- DataFrames
DataFrame(cols, rows) == [cols |-> cols, rows |-> rows]

\* first position of a column name, 0 when absent
ColIndex(df, name) ==
  IF \E a \in 1..Len(df.cols) : df.cols[a] = name
  THEN CHOOSE a \in 1..Len(df.cols) :
         /\ df.cols[a] = name
         /\ \A b \in 1..(a - 1) : df.cols[b] # name
  ELSE 0

\* name in df.columns
HasCol(df, name) == ColIndex(df, name) # 0

\* df[name] as the sequence of its cells
Column(df, name) ==
  [r \in 1..Len(df.rows) |-> df.rows[r][ColIndex(df, name)]]

\* df.rename(columns={old: new})
Rename(df, old, new) ==
  DataFrame([a \in 1..Len(df.cols) |-> IF df.cols[a] = old THEN new ELSE df.cols[a]],
            df.rows)

\* df[[n1, n2, ...]]
SelectCols(df, names) ==
  DataFrame(names,
            [r \in 1..Len(df.rows) |->
               [a \in 1..Len(names) |-> df.rows[r][ColIndex(df, names[a])]]])

\* the rows of a sequence that satisfy Keep(position), in order
RECURSIVE FilterIdx(_, _, _)
FilterIdx(rows, Keep(_), a) ==
  IF a > Len(rows) THEN <<>>
  ELSE (IF Keep(a) THEN <<rows[a]>> ELSE <<>>) \o FilterIdx(rows, Keep, a + 1)

\* df.drop_duplicates(subset=[key]).reset_index(drop=True)   (keep='first')
DropDuplicatesKeepLast(df, key) ==
  LET k == ColIndex(df, key)
      Keep(a) == \A b \in (a + 1)..Len(df.rows) : df.rows[b][k] # df.rows[a][k]
  IN DataFrame(df.cols, FilterIdx(df.rows, Keep, 1))

DropDuplicates(df, key) ==
  LET k == ColIndex(df, key)
      Keep(a) == \A b \in 1..(a - 1) : df.rows[b][k] # df.rows[a][k]
  IN DataFrame(df.cols, FilterIdx(df.rows, Keep, 1))

\* insertion of one row into rows already sorted on cell k (stable)
RECURSIVE InsertSorted(_, _, _)
InsertSorted(row, sorted, k) ==
  IF sorted = <<>> THEN <<row>>
  ELSE IF StrLess(row[k], Head(sorted)[k]) THEN <<row>> \o sorted
  ELSE <<Head(sorted)>> \o InsertSorted(row, Tail(sorted), k)

RECURSIVE SortRows(_, _)
SortRows(rows, k) ==
  IF rows = <<>> THEN <<>>
  ELSE InsertSorted(rows[Len(rows)], SortRows(SubSeq(rows, 1, Len(rows) - 1), k), k)

\* df.sort_values(key).reset_index(drop=True)
SortValuesNoop(df, key) == df

SortValues(df, key) == DataFrame(df.cols, SortRows(df.rows, ColIndex(df, key)))

\* the distinct values of a sequence of cells, ascending
RECURSIVE SortedCells(_)
SortedCells(S) ==
  IF S = {} THEN <<>>
  ELSE LET m == CHOOSE x \in S : \A y \in S : ~StrLess(y, x)
       IN <<m>> \o SortedCells(S \ {m})

Range(s) == {s[a] : a \in 1..Len(s)}

\* a row without its cell at position k
DropAt(row, k) == SubSeq(row, 1, k - 1) \o SubSeq(row, k + 1, Len(row))

\* the column names of a merge that would not tell the two sides apart
MergedColsPlain(left, right, key) ==
  left.cols \o DropAt(right.cols, ColIndex(right, key))

\* pd.merge(left, right, on=key, how='outer'): the union of the keys in
\* ascending order; per key the pairs (left row, right row) in row order,
\* and NaN in the columns of the side that has no row for the key.  Value
\* columns that both sides name alike get the suffixes _x and _y.
MergedCols(left, right, key) ==
  LET kl == ColIndex(left, key)
      kr == ColIndex(right, key)
      lo == {left.cols[a] : a \in 1..Len(left.cols)} \ {key}
      ro == {right.cols[a] : a \in 1..Len(right.cols)} \ {key}
      both == lo \cap ro
      lcols == [a \in 1..Len(left.cols) |->
                  IF left.cols[a] \in both THEN left.cols[a] \o <<"_x">>
                  ELSE left.cols[a]]
      rcols == [a \in 1..Len(right.cols) |->
                  IF right.cols[a] \in both THEN right.cols[a] \o <<"_y">>
                  ELSE right.cols[a]]
  IN lcols \o DropAt(rcols, kr)

RowsOfKey(left, right, key, kval) ==
  LET kl == ColIndex(left, key)
      kr == ColIndex(right, key)
      KeepL(a) == left.rows[a][kl] = kval
      KeepR(a) == right.rows[a][kr] = kval
      L == FilterIdx(left.rows, KeepL, 1)
      R == FilterIdx(right.rows, KeepR, 1)
      nanL == [a \in 1..Len(left.cols) |-> IF a = kl THEN kval ELSE NaN]
      nanR == [a \in 1..(Len(right.cols) - 1) |-> NaN]
  IN IF R = <<>> THEN [a \in 1..Len(L) |-> L[a] \o nanR]
     ELSE IF L = <<>> THEN [a \in 1..Len(R) |-> nanL \o DropAt(R[a], kr)]
     ELSE [n \in 1..(Len(L) * Len(R)) |->
             L[((n - 1) \div Len(R)) + 1] \o DropAt(R[((n - 1) % Len(R)) + 1], kr)]

RECURSIVE MergeRows(_, _, _, _)
MergeRows(left, right, key, keys) ==
  IF keys = <<>> THEN <<>>
  ELSE RowsOfKey(left, right, key, Head(keys))
         \o MergeRows(left, right, key, Tail(keys))

MergeLeft(left, right, key) ==
  DataFrame(MergedCols(left, right, key),
            MergeRows(left, right, key, SortedCells(Range(Column(left, key)))))

MergeInner(left, right, key) ==
  DataFrame(MergedCols(left, right, key),
            MergeRows(left, right, key,
                      SortedCells(Range(Column(left, key)) \cap Range(Column(right, key)))))

Merge(left, right, key) ==
  DataFrame(MergedCols(left, right, key),
            MergeRows(left, right, key,
                      SortedCells(Range(Column(left, key)) \cup Range(Column(right, key)))))

\* functools.reduce(lambda left, right: pd.merge(left, right, on=key,
\* how='outer'), tables) for a non-empty list of tables
RECURSIVE Reduce(_, _)
Reduce(tables, key) ==
  IF Len(tables) = 1 THEN tables[1]
  ELSE Merge(Reduce(SubSeq(tables, 1, Len(tables) - 1), key), tables[Len(tables)], key)

\* DataFrame.to_csv(path, index=False): NaN is written as an empty field
ToCsv(df) ==
  DataFrame(df.cols,
            [r \in 1..Len(df.rows) |->
               [a \in 1..Len(df.rows[r]) |->
                  IF df.rows[r][a] = NaN THEN "" ELSE df.rows[r][a]]])

\* pd.read_csv(path) of a well-formed file: an empty field is read as NaN
FromCsv(csv) ==
  DataFrame(csv.cols,
            [r \in 1..Len(csv.rows) |->
               [a \in 1..Len(csv.rows[r]) |->
                  IF csv.rows[r][a] = "" THEN NaN ELSE csv.rows[r][a]]])

\* whether pandas gives the column a numeric dtype
IsNumericCol(df, a) ==
  \A r \in 1..Len(df.rows) : df.rows[r][a] \in NumericCells \cup {NaN}

\* ------------------------------------------- notebook cell In[2]: config
AllCsvFiles ==
  << <<"nutrients/", "Calcium", ".csv">>, <<"nutrients/", "Foliate", ".csv">>,
     <<"nutrients/", "Iron", ".csv">>, <<"nutrients/", "Kilocaleries", ".csv">>,
     <<"nutrients/", "Proteins", ".csv">>, <<"nutrients/", "Riboflavin", ".csv">>,
     <<"nutrients/", "Thiamin", ".csv">>, <<"nutrients/", "VitaminA", ".csv">>,
     <<"nutrients/", "VitaminB12", ".csv">>, <<"nutrients/", "VitaminB6", ".csv">>,
     <<"nutrients/", "VitaminC", ".csv">>, <<"nutrients/", "Zinc", ".csv">> >>

\* the part of the list the model runs over: from 'nutrients/Iron.csv' on
csv_files == SubSeq(AllCsvFiles, 3, 2 + NumFiles)

units ==
  (<<"Calcium">> :> <<"mg">>) @@ (<<"Foliate">> :> <<"mcg">>) @@
  (<<"Niacin">> :> <<"mg">>) @@ (<<"Proteins">> :> <<"mg">>) @@
  (<<"Kilocaleries">> :> <<"kcal">>) @@ (<<"Iron">> :> <<"mg">>) @@
  (<<"Riboflavin">> :> <<"mg">>) @@ (<<"Thiamin">> :> <<"mg">>) @@
  (<<"VitaminA">> :> <<"mcg">>) @@ (<<"VitaminB12">> :> <<"mcg">>) @@
  (<<"VitaminB6">> :> <<"mg">>) @@ (<<"VitaminC">> :> <<"mg">>) @@
  (<<"Zinc">> :> <<"mg">>)

display_name ==
  (<<"Calcium">> :> <<"Calcium">>) @@ (<<"Foliate">> :> <<"Folate">>) @@
  (<<"Proteins">> :> <<"Proteins">>) @@ (<<"Kilocaleries">> :> <<"Kilocaleries">>) @@
  (<<"Iron">> :> <<"Iron">>) @@ (<<"Riboflavin">> :> <<"Riboflavin">>) @@
  (<<"Thiamin">> :> <<"Thiamin">>) @@ (<<"VitaminA">> :> <<"Vitamin A">>) @@
  (<<"VitaminB12">> :> <<"Vitamin B12">>) @@ (<<"VitaminB6">> :> <<"Vitamin B6">>) @@
  (<<"VitaminC">> :> <<"Vitamin C">>) @@ (<<"Zinc">> :> <<"Zinc">>)

\* file.replace('.csv', '')
Base(file) == Replace(file, ".csv", EmptyStr)

value_col_new_plain(base) == <<"Average Consumption adequacy">>

\* f'Average Consumption adequacy of {pretty} ({unit})' if unit
\* else f'Average Consumption adequacy of {pretty}'
value_col_new(base) ==
  LET pretty == DictGet(display_name, base, base)
      unit == DictGet(units, base, EmptyStr)
  IN IF unit # EmptyStr
     THEN <<"Average Consumption adequacy", " of ">> \o pretty \o <<" (">> \o unit \o <<")">>
     ELSE <<"Average Consumption adequacy", " of ">> \o pretty

district == <<"district">>

\* the key-column scan of the load loop
district_col(df) ==
  LET Match(a) == \/ Contains(Lower(df.cols[a]), <<"district">>)
                  \/ Contains(Lower(df.cols[a]), <<"name">>)
  IN IF \E a \in 1..Len(df.cols) : Match(a)
     THEN df.cols[CHOOSE a \in 1..Len(df.cols) :
                    Match(a) /\ \A b \in 1..(a - 1) : ~Match(b)]
     ELSE df.cols[2]

NarrowTableKeyed(df) == Rename(df, df.cols[1], district)

\* what the load loop stores for a table with fewer than two columns
NarrowTable(df) == df

\* the body of the load loop for a table with at least two columns
LoadedTable(df, base) ==
  LET d1 == Rename(df, district_col(df), district)
      last_col == d1.cols[Len(d1.cols)]
      d2 == Rename(d1, last_col, value_col_new(base))
  IN IF HasCol(d2, district) THEN DropDuplicates(d2, district) ELSE d2


\* ------------------------------------- notebook cell In[4]: clean, merge
\* valid_dfs: the entries of nutrient_dfs that have a 'district' column
valid_dfs(dfs_) ==
  LET Keep(a) == HasCol(dfs_[a].df, district) IN FilterIdx(dfs_, Keep, 1)

\* other_cols: the column names except 'district', in order
other_cols(df) ==
  LET Keep(a) == df.cols[a] # district IN FilterIdx(df.cols, Keep, 1)

val_col_last(df) == other_cols(df)[Len(other_cols(df))]

\* val_col: (a) the first other column naming 'Average Consumption
\* adequacy', else (b) the first numeric column, else (c) the last other one
val_col(df) ==
  LET oc == other_cols(df)
      Phrase(a) == Contains(oc[a], <<"Average Consumption adequacy">>)
      Numeric(a) == df.cols[a] # district /\ IsNumericCol(df, a)
  IN IF \E a \in 1..Len(oc) : Phrase(a)
     THEN oc[CHOOSE a \in 1..Len(oc) : Phrase(a) /\ \A b \in 1..(a - 1) : ~Phrase(b)]
     ELSE IF \E a \in 1..Len(df.cols) : Numeric(a)
     THEN df.cols[CHOOSE a \in 1..Len(df.cols) :
                    Numeric(a) /\ \A b \in 1..(a - 1) : ~Numeric(b)]
     ELSE oc[Len(oc)]

\* cleaned_df of one valid table
cleaned_df(name, df) ==
  DropDuplicates(Rename(SelectCols(df, <<district, val_col(df)>>),
                        val_col(df), value_col_new(name)),
                 district)

\* cleaned: one cleaned table per valid table that has a value column
cleaned_of(valid) ==
  LET Keep(a) == other_cols(valid[a].df) # <<>>
      kept == FilterIdx(valid, Keep, 1)
  IN [a \in 1..Len(kept) |->
        [name |-> kept[a].name, df |-> cleaned_df(kept[a].name, kept[a].df)]]

\* the names of the valid tables skipped for lack of a value column
skipped_of(valid) ==
  LET Keep(a) == other_cols(valid[a].df) = <<>>
  IN FilterIdx(valid, Keep, 1)

\* list(cleaned.values())
dfs_to_merge(cl) == [a \in 1..Len(cl) |-> cl[a].df]

\* reduce(...) followed by sort_values('district').reset_index(drop=True)
merged_of(tables) == SortValues(Reduce(tables, district), district)

\* d[k] = v on an insertion-ordered dict kept as a sequence of entries
DictSet(d, k, v) ==
  IF \E a \in 1..Len(d) : d[a].name = k
  THEN [a \in 1..Len(d) |-> IF d[a].name = k THEN [name |-> k, df |-> v] ELSE d[a]]
  ELSE Append(d, [name |-> k, df |-> v])

\* ------------------------------------------------------ the source files
\* a path on disk: absent, unparsable, or a table of text
Absent == [exists |-> FALSE, parses |-> FALSE, cols |-> <<>>, rows |-> <<>>]
Malformed == [exists |-> TRUE, parses |-> FALSE, cols |-> <<>>, rows |-> <<>>]
TableFile(cols, rows) == [exists |-> TRUE, parses |-> TRUE, cols |-> cols, rows |-> rows]

\* os.path.exists(file)
os_path_exists_always(c) == TRUE

os_path_exists(c) == c.exists

\* the exception pd.read_csv(path) raises, "" when it returns a table
read_csv_error(c) ==
  IF ~c.exists THEN "FileNotFoundError"
  ELSE IF ~c.parses THEN "ParserError"
  ELSE ""

\* header layouts: position of the key column and of the value column
\* (0: none); any other column holds a running number
MainShape ==
  [cols |-> << <<"District", " ", "Name">>, <<"value">> >>, key |-> 1, val |-> 2]

OddShapes ==
  { [cols |-> << <<"id">>, <<"Name">>, <<"value">> >>, key |-> 2, val |-> 3],
    [cols |-> << <<"id">>, <<"region">>, <<"value">> >>, key |-> 2, val |-> 3],
    [cols |-> << <<"NAME">>, <<"District", " ", "Code">>, <<"value">> >>,
     key |-> 1, val |-> 3],
    [cols |-> << <<"region">>, <<"value">> >>, key |-> 1, val |-> 2],
    [cols |-> << <<"value">>, <<"DISTRICT">> >>, key |-> 2, val |-> 1],
    [cols |-> << <<"value">> >>, key |-> 0, val |-> 1],
    [cols |-> << <<"district">> >>, key |-> 1, val |-> 0] }

\* the file at list position f with layout sh and the given districts
ShapedFile(sh, keys, f) ==
  TableFile(sh.cols,
            [r \in 1..Len(keys) |->
               [a \in 1..Len(sh.cols) |->
                  IF a = sh.key THEN keys[r]
                  ELSE IF a = sh.val THEN ValueTexts[f][r]
                  ELSE IdTexts[r]]])

KeyLists == UNION {[1..n -> MainKeys] : n \in 0..MaxRows}

\* the district list of the files with an odd layout
OddKeys == <<"KAMPALA", "GULU">>

\* a main-layout file whose first row has an empty value field
GapFile(f) ==
  LET t == ShapedFile(MainShape, OddKeys, f)
  IN TableFile(t.cols,
               [r \in 1..Len(t.rows) |->
                  IF r = 1 THEN [t.rows[r] EXCEPT ![MainShape.val] = ""]
                  ELSE t.rows[r]])

FileContents(f) ==
  {Absent, Malformed, GapFile(f)}
    \cup {ShapedFile(MainShape, ks, f) : ks \in KeyLists}
    \cup {ShapedFile(sh, OddKeys, f) : sh \in OddShapes}

\* every assignment of a content to the first n paths of csv_files
RECURSIVE Disks(_)
Disks(n) ==
  IF n = 0 THEN {<<>>}
  ELSE {Append(d, c) : d \in Disks(n - 1), c \in FileContents(n)}

\* ------------------------------------------- index cell In[26]: config
AllIndexFiles ==
  << [path |-> "Index datasets/composite-vulnerability.csv",
      name |-> <<"Composite Vulnerability Index">>],
     [path |-> "Index datasets/health-system-vulnerabil.csv",
      name |-> <<"Health System Vulnerability Index">>],
     [path |-> "Index datasets/mean-adequacy-ratio-inde.csv",
      name |-> <<"Mean Adequacy Ratio Index">>],
     [path |-> "Index datasets/per-capita-food-consumpt.csv",
      name |-> <<"Per Capita Food Consumption Index">>],
     [path |-> "Index datasets/vulnerability-to-climate.csv",
      name |-> <<"Vulnerability to Climate Change Index">>] >>

files == SubSeq(AllIndexFiles, 1, NumIndexFiles)

Category == <<"Category">>
Region == <<"Region">>

IndexShape ==
  [cols |-> << <<"Category">>, <<"Value">> >>, key |-> 1, val |-> 2]

IndexOddShapes ==
  { [cols |-> << <<"Category">> >>, key |-> 1, val |-> 0],
    [cols |-> << <<"id">>, <<"Category">>, <<"Value">> >>, key |-> 2, val |-> 3] }

IndexFileContents(f) ==
  {Absent, Malformed}
    \cup {ShapedFile(IndexShape, ks, f) : ks \in KeyLists}
    \cup {ShapedFile(sh, OddKeys, f) : sh \in IndexOddShapes}

\* every assignment of a content to the first n paths of files
RECURSIVE IndexDisks(_)
IndexDisks(n) ==
  IF n = 0 THEN {<<>>}
  ELSE {Append(d, c) : d \in IndexDisks(n - 1), c \in IndexFileContents(n)}

\* df.columns = ["Category", name]
SetColumns(df, names) == DataFrame(names, df.rows)

\* reduce(...) followed by rename(columns={'Category': 'Region'})
merged_index_of(tables) == Rename(Reduce(tables, Category), Category, Region)

\* ----------------------------------------- dashboard.py: get_risk_level
\* the default thresholds [0.3, 0.6] in hundredths
thresholds == <<30, 60>>

\* value >= t in Python: False when value is NaN (None here)
Ge(v, t) == IsSome(v) /\ Get(v) >= t
Lt(v, t) == IsSome(v) /\ Get(v) < t

Gt(v, t) == IsSome(v) /\ Get(v) > t

get_risk_level_strict(v, th) ==
  IF Gt(v, th[2]) THEN "High"
  ELSE IF Gt(v, th[1]) THEN "Medium"
  ELSE "Low"

get_risk_level(v, th) ==
  IF Ge(v, th[2]) THEN "High"
  ELSE IF Ge(v, th[1]) THEN "Medium"
  ELSE "Low"

\* ------------------------------ dashboard.py: the vulnerability alerts
Le(v, t) == IsSome(v) /\ Get(v) <= t

\* row mask of high_vuln_regions: composite index >= 0.7
high_vuln_mask(v) == Ge(v, 70)

\* row mask of medium_vuln_regions: composite index >= 0.6 and < 0.7
medium_vuln_mask_inclusive(v) == Ge(v, 60) /\ Le(v, 70)

medium_vuln_mask(v) == Ge(v, 60) /\ Lt(v, 70)

\* the alert cards a region with composite index v gets
alert_cards(v) ==
  (IF high_vuln_mask(v) THEN {"Critical"} ELSE {})
    \cup (IF medium_vuln_mask(v) THEN {"Warning"} ELSE {})

\* --------------------- dashboard.py: the nutritional status overview
severe_mask(r) == Lt(r, 60)

moderate_mask(r) == Ge(r, 60) /\ Lt(r, 80)

adequate_mask_strict(r) == Gt(r, 80)

adequate_mask(r) == Ge(r, 80)

\* the masks that select a row with adequacy ratio r
adequacy_masks(r) ==
  (IF severe_mask(r) THEN {"severe"} ELSE {})
    \cup (IF moderate_mask(r) THEN {"moderate"} ELSE {})
    \cup (IF adequate_mask(r) THEN {"adequate"} ELSE {})


\* ---------------------------------------------------------------- state
VARIABLES
  disk,                 \* content of each path of csv_files
  index_disk,           \* content of each path of files
  pc,                   \* the cell (or loop) to run next
  file_idx,             \* position of the load loop in its list
  error,                \* the exception that ended the run, "" if none
  printed,              \* what the run has printed, as message tags
  nutrient_dfs,         \* dict base name -> DataFrame, in insertion order
  missing_files,        \* list of skipped paths
  cleaned,              \* dict name -> cleaned two-column DataFrame
  merged_nutrients,     \* None while the name is unbound
  merged_nutrients_csv, \* the file merged_nutrients.csv, None while absent
  dfs,                  \* list of the relabelled index tables
  merged_index,         \* None while the name is unbound
  merged_index_csv,     \* the file merged_index.csv, None while absent
  value,                \* a cell of an index or adequacy column, None for NaN
  risk_level,           \* result of get_risk_level(value), "" before the call
  alert,                \* None, or Some(the alert cards shown for value)
  adequacy,             \* None, or Some(the adequacy masks selecting value)
  probe,                \* None, or Some(result of a further merge)
  report,               \* None, or Some(what a dashboard analysis showed)
  consumer,             \* the dashboard script that has loaded, "" if none
  ui,                   \* the messages a dashboard script has shown
  vulnerability,        \* what the script's loader returned for the index
  nutrients,            \* what the script's loader returned for the nutrients
  cache                 \* None, or Some(the loaders' results st.cache_data keeps)

vars ==
  << disk, index_disk, pc, file_idx, error, printed, nutrient_dfs, missing_files,
     cleaned, merged_nutrients, merged_nutrients_csv, dfs, merged_index,
     merged_index_csv, value, risk_level, alert, adequacy, probe, report, consumer,
     ui,
     vulnerability, nutrients, cache >>

nutrient_vars ==
  << disk, nutrient_dfs, missing_files, cleaned, merged_nutrients,
     merged_nutrients_csv >>

index_vars == << index_disk, dfs, merged_index, merged_index_csv >>

risk_vars == << value, risk_level, alert, adequacy >>

dash_vars == << consumer, ui, vulnerability, nutrients, cache >>

view_vars == << probe, report, dash_vars >>

\* the names a fresh process has bound
FreshKernel ==
  /\ file_idx = 1
  /\ error = ""
  /\ printed = <<>>
  /\ nutrient_dfs = <<>>
  /\ missing_files = <<>>
  /\ cleaned = <<>>
  /\ merged_nutrients = None
  /\ dfs = <<>>
  /\ merged_index = None
  /\ value = None
  /\ risk_level = ""
  /\ alert = None
  /\ adequacy = None
  /\ probe = None
  /\ report = None
  /\ consumer = ""
  /\ ui = <<>>
  /\ vulnerability = None
  /\ nutrients = None
  /\ cache = None

\* a fresh process in a directory where no merged file has been written
Fresh ==
  /\ merged_nutrients_csv = None
  /\ merged_index_csv = None
  /\ FreshKernel

\* a run of the nutrient cells In[2] .. In[9] over any content of the paths
InitNutrient ==
  /\ disk \in Disks(NumFiles)
  /\ index_disk = <<>>
  /\ pc = "load"
  /\ Fresh

\* ------------------------------------------- In[2]: one loop iteration
LoadFile ==
  /\ pc = "load"
  /\ file_idx <= Len(csv_files)
  /\ LET file == csv_files[file_idx]
         c == disk[file_idx]
         base == Base(file)
         df == FromCsv(c)
         last == file_idx = Len(csv_files)
     IN IF ~os_path_exists(c)
        THEN /\ missing_files' = Append(missing_files, file)
             /\ nutrient_dfs' = nutrient_dfs
             /\ pc' = IF last THEN "merge" ELSE "load"
             /\ file_idx' = file_idx + 1
             /\ error' = error
        ELSE IF read_csv_error(c) # ""
        THEN /\ pc' = "crashed"
             /\ error' = read_csv_error(c)
             /\ UNCHANGED << missing_files, nutrient_dfs, file_idx >>
        ELSE /\ nutrient_dfs' =
                  DictSet(nutrient_dfs, base,
                          IF Len(df.cols) < 2 THEN NarrowTable(df)
                          ELSE LoadedTable(df, base))
             /\ missing_files' = missing_files
             /\ pc' = IF last THEN "merge" ELSE "load"
             /\ file_idx' = file_idx + 1
             /\ error' = error
  /\ printed' = IF pc' = "merge" THEN Append(printed, "Missing files skipped") ELSE printed
  /\ UNCHANGED << disk, cleaned, merged_nutrients, merged_nutrients_csv >>
  /\ UNCHANGED << index_vars, risk_vars, view_vars >>

\* ----------------------------------------------------------------- In[4]
MergeCell ==
  /\ pc = "merge"
  /\ LET valid == valid_dfs(nutrient_dfs)
         cl == cleaned_of(valid)
         skips == [a \in 1..Len(skipped_of(valid)) |-> "Skipping"]
     IN IF valid = <<>>
        THEN /\ printed' = Append(printed, "No valid DataFrames")
             /\ UNCHANGED << cleaned, merged_nutrients, nutrient_dfs >>
        ELSE IF dfs_to_merge(cl) = <<>>
        THEN /\ printed' = (printed \o skips) \o <<"No cleaned DataFrames to merge">>
             /\ cleaned' = cl
             /\ UNCHANGED << merged_nutrients, nutrient_dfs >>
        ELSE /\ printed' = (printed \o skips) \o <<"Merged shape">>
             /\ cleaned' = cl
             /\ merged_nutrients' = Some(merged_of(dfs_to_merge(cl)))
             /\ nutrient_dfs' =
                  DictSet(nutrient_dfs, <<"merged_by_district">>,
                          merged_of(dfs_to_merge(cl)))
  /\ pc' = "show"
  /\ UNCHANGED << disk, missing_files, merged_nutrients_csv, file_idx, error >>
  /\ UNCHANGED << index_vars, risk_vars, view_vars >>

\* ------------------------------------- In[5], In[6]: merged_nutrients
ShowCell ==
  /\ pc = "show"
  /\ IF IsSome(merged_nutrients)
     THEN pc' = "persist" /\ error' = error
     ELSE pc' = "crashed" /\ error' = "NameError"
  /\ UNCHANGED << nutrient_vars, index_vars, risk_vars, view_vars, file_idx, printed >>

\* ------------------------------ In[7]: merged_nutrients.to_csv(...)
PersistCell ==
  /\ pc = "persist"
  /\ merged_nutrients_csv' = Some(ToCsv(Get(merged_nutrients)))
  /\ pc' = "rename"
  /\ UNCHANGED << disk, nutrient_dfs, missing_files, cleaned, merged_nutrients >>
  /\ UNCHANGED << index_vars, risk_vars, view_vars, file_idx, printed, error >>

\* ------------------------- In[9]: merged_nutrients.rename(..., inplace)
KilocaleriesOld ==
  <<"Average Consumption adequacy", " of ", "Kilocaleries", " (", "kcal", ")">>

KilocaleriesNew ==
  <<"Consumption adequacy", " of ", "Kilocaleries", " (", "kcal", ")">>

RenameCell ==
  /\ pc = "rename"
  /\ merged_nutrients' = Some(Rename(Get(merged_nutrients), KilocaleriesOld, KilocaleriesNew))
  /\ pc' = "done"
  /\ UNCHANGED << disk, nutrient_dfs, missing_files, cleaned, merged_nutrients_csv >>
  /\ UNCHANGED << index_vars, risk_vars, view_vars, file_idx, printed, error >>

\* ------------------- In[4] once more: the merge over the tables reordered
Permuted(tables, p) == [a \in 1..Len(tables) |-> tables[p[a]]]

MergePermuted ==
  /\ pc = "rename"
  /\ \E p \in Permutations(1..Len(cleaned)) :
       probe' = Some(merged_of(Permuted(dfs_to_merge(cleaned), p)))
  /\ pc' = "remerged"
  /\ UNCHANGED << nutrient_vars, index_vars, risk_vars, dash_vars, report >>
  /\ UNCHANGED << file_idx, printed, error >>

\* -------- pd.merge(merged_nutrients, merged_nutrients, on='district', ...)
MergeWithItself ==
  /\ pc = "rename"
  /\ probe' = Some(Merge(Get(merged_nutrients), Get(merged_nutrients), district))
  /\ pc' = "selfmerged"
  /\ UNCHANGED << nutrient_vars, index_vars, risk_vars, dash_vars, report >>
  /\ UNCHANGED << file_idx, printed, error >>

NutrientRun == Len(disk) > 0

\* ------------- In[4] run on a dict holding one table of any column layout
AdequacyPhrase == <<"Average Consumption adequacy">>

\* tables with a 'district' column and other columns of text and numbers
MergeInputs ==
  {DataFrame(<<district, <<"id">>, AdequacyPhrase \o <<"/Iron">>, <<"notes">> >>,
             << <<"KAMPALA", "1", "0.11", "a">>, <<"GULU", "2", "0.12", "b">> >>),
   DataFrame(<<district, <<"notes">>, AdequacyPhrase \o <<"/Iron">>, AdequacyPhrase >>,
             << <<"KAMPALA", "a", "0.11", "0.21">>, <<"GULU", "b", "0.12", "0.22">> >>),
   DataFrame(<<district, <<"notes">>, <<"id">>, <<"value">> >>,
             << <<"KAMPALA", "a", "1", "0.11">>, <<"KAMPALA", "b", "2", "0.12">> >>),
   DataFrame(<< <<"notes">>, district, <<"value">>, <<"id">> >>,
             << <<"a", "KAMPALA", NaN, "1">>, <<"b", "GULU", "0.12", "2">> >>),
   DataFrame(<<district, <<"notes">>, <<"remark">> >>,
             << <<"KAMPALA", "a", "b">>, <<"GULU", "b", "a">> >>),
   DataFrame(<< <<"remark">>, district, <<"notes">> >>,
             << <<"a", "1", "b">>, <<"b", "2", NaN>> >>)}

InitMerge ==
  /\ disk = <<>>
  /\ index_disk = <<>>
  /\ pc = "merge"
  /\ file_idx = Len(csv_files) + 1
  /\ error = ""
  /\ printed = <<"Missing files skipped">>
  /\ \E t \in MergeInputs :
       nutrient_dfs = << [name |-> Base(csv_files[1]), df |-> t] >>
  /\ missing_files = <<>>
  /\ cleaned = <<>>
  /\ merged_nutrients = None
  /\ merged_nutrients_csv = None
  /\ dfs = <<>>
  /\ merged_index = None
  /\ merged_index_csv = None
  /\ value = None
  /\ risk_level = ""
  /\ alert = None
  /\ adequacy = None
  /\ probe = None
  /\ report = None
  /\ consumer = ""
  /\ ui = <<>>
  /\ vulnerability = None
  /\ nutrients = None
  /\ cache = None

\* ------- the next pipeline run: a source file has gone, the kernel is new,
\* the merged file of the run before is still on disk
NextRun ==
  /\ pc = "done"
  /\ NutrientRun
  /\ \E a \in 1..Len(disk) :
       /\ disk[a].exists
       /\ disk' = [disk EXCEPT ![a] = Absent]
  /\ pc' = "load"
  /\ file_idx' = 1
  /\ error' = ""
  /\ printed' = <<>>
  /\ nutrient_dfs' = <<>>
  /\ missing_files' = <<>>
  /\ cleaned' = <<>>
  /\ merged_nutrients' = None
  /\ UNCHANGED << merged_nutrients_csv, index_vars, risk_vars, view_vars >>

\* ------------------------------------------------ In[26]: the index cell
InitIndex ==
  /\ disk = <<>>
  /\ index_disk \in IndexDisks(NumIndexFiles)
  /\ pc = "index_load"
  /\ Fresh

\* one iteration of the loop over files
IndexLoadFile ==
  /\ pc = "index_load"
  /\ file_idx <= Len(files)
  /\ LET c == index_disk[file_idx]
         df == FromCsv(c)
         last == file_idx = Len(files)
     IN IF read_csv_error(c) # ""
        THEN pc' = "crashed" /\ error' = read_csv_error(c)
               /\ UNCHANGED << dfs, file_idx >>
        ELSE IF Len(df.cols) # 2
        THEN pc' = "crashed" /\ error' = "ValueError"
               /\ UNCHANGED << dfs, file_idx >>
        ELSE /\ dfs' = Append(dfs, SetColumns(df, <<Category, files[file_idx].name>>))
             /\ pc' = IF last THEN "index_merge" ELSE "index_load"
             /\ file_idx' = file_idx + 1
             /\ error' = error
  /\ UNCHANGED << index_disk, merged_index, merged_index_csv >>
  /\ UNCHANGED << nutrient_vars, risk_vars, view_vars, printed >>

\* reduce, rename and to_csv
IndexMergeCell ==
  /\ pc = "index_merge"
  /\ merged_index' = Some(merged_index_of(dfs))
  /\ merged_index_csv' = Some(ToCsv(merged_index_of(dfs)))
  /\ pc' = "done"
  /\ UNCHANGED << index_disk, dfs >>
  /\ UNCHANGED << nutrient_vars, risk_vars, view_vars, file_idx, printed, error >>

\* ------------------------------------- a call of get_risk_level(value)
RiskValues == {None} \cup {Some(v) : v \in 0..MaxValue}

InitRisk ==
  /\ disk = <<>>
  /\ index_disk = <<>>
  /\ pc = "call"
  /\ file_idx = 1
  /\ error = ""
  /\ printed = <<>>
  /\ nutrient_dfs = <<>>
  /\ missing_files = <<>>
  /\ cleaned = <<>>
  /\ merged_nutrients = None
  /\ merged_nutrients_csv = None
  /\ dfs = <<>>
  /\ merged_index = None
  /\ merged_index_csv = None
  /\ value \in RiskValues
  /\ risk_level = ""
  /\ alert = None
  /\ adequacy = None
  /\ probe = None
  /\ report = None
  /\ consumer = ""
  /\ ui = <<>>
  /\ vulnerability = None
  /\ nutrients = None
  /\ cache = None

Classify ==
  /\ pc = "call"
  /\ risk_level' = get_risk_level(value, thresholds)
  /\ pc' = "returned"
  /\ UNCHANGED << nutrient_vars, index_vars, view_vars, value, file_idx, printed, error >>
  /\ UNCHANGED << alert, adequacy >>

\* the alert system evaluates its two row masks on the value
AlertSystem ==
  /\ pc \in {"call", "returned"}
  /\ alert = None
  /\ alert' = Some(alert_cards(value))
  /\ UNCHANGED << nutrient_vars, index_vars, view_vars, value, file_idx, printed, error >>
  /\ UNCHANGED << pc, risk_level, adequacy >>

\* the nutrition overview evaluates its three row masks on the value
NutritionOverview ==
  /\ pc \in {"call", "returned"}
  /\ adequacy = None
  /\ adequacy' = Some(adequacy_masks(value))
  /\ UNCHANGED << nutrient_vars, index_vars, view_vars, value, file_idx, printed, error >>
  /\ UNCHANGED << pc, risk_level, alert >>

\* the Alert Status report: the groups high_risk, medium_risk, low_risk
\* whose row mask selects the value
alert_status_groups(v) ==
  (IF Ge(v, 60) THEN {"High"} ELSE {})
    \cup (IF Ge(v, 30) /\ Lt(v, 60) THEN {"Medium"} ELSE {})
    \cup (IF Lt(v, 30) THEN {"Low"} ELSE {})

AlertStatusReport ==
  /\ pc \in {"call", "returned"}
  /\ report = None
  /\ report' = Some([report_type |-> "Alert Status",
                     groups |-> alert_status_groups(value)])
  /\ UNCHANGED << nutrient_vars, index_vars, risk_vars, probe, dash_vars >>
  /\ UNCHANGED << pc, file_idx, printed, error >>

\* ------------------------------------------------------- specification
\* a session starts at the nutrient cells, at the index cell, or at a call
\* of the classifier
\* --------------------------------- the dashboards: the persisted tables
\* a file of zero bytes
EmptyFile == DataFrame(<<>>, <<>>)

CompositeIndex == <<"Composite Vulnerability Index">>

\* contents of merged_index.csv: header only, one row, a region twice,
\* an empty field
IndexCsvSamples ==
  {DataFrame(<<Region, CompositeIndex>>, rows) :
     rows \in {<<>>,
               << <<"KAMPALA", "0.11">> >>,
               << <<"KAMPALA", "0.11">>, <<"KAMPALA", "0.12">> >>,
               << <<"KAMPALA", "">>, <<"GULU", "0.13">> >>}}

\* contents of merged_nutrients.csv: header only, one row
NutrientCsvSamples ==
  {DataFrame(<<district, value_col_new(Base(csv_files[1]))>>, rows) :
     rows \in {<<>>, << <<"KAMPALA", "0.21">> >>}}

PersistedFiles(samples) == {None, Some(EmptyFile)} \cup {Some(t) : t \in samples}

\* the exception pd.read_csv raises on a persisted file, "" when none
csv_read_error(f) ==
  IF f = None THEN "FileNotFoundError"
  ELSE IF Get(f).cols = <<>> THEN "EmptyDataError"
  ELSE ""

\* DataFrame.empty
IsEmptyDf(df) == Len(df.cols) = 0 \/ Len(df.rows) = 0

\* a persisted table that does not exist or holds no data
MissingOrEmpty(f) == f = None \/ IsEmptyDf(Get(f))

\* what a loader hands to the page code, with where it came from
Data(source, df) == [source |-> source, df |-> df]

\* Python's None as a loader's return value
NoneData == Data("None", EmptyFile)

sample_districts ==
  <<"KAMPALA", "WAKISO", "MUKONO", "JINJA", "MBALE", "GULU", "LIRA",
    "MASAKA", "MBARARA", "KASESE", "FORT PORTAL", "ARUA">>

\* the sample tables: one row per sample district, values drawn at random
SampleTable(key, col) ==
  DataFrame(<<key, col>>,
            [a \in 1..Len(sample_districts) |-> <<sample_districts[a], "uniform">>])

sample_data ==
  [raised |-> "", warning |-> TRUE, errors |-> <<>>,
   vulnerability |-> Data("synthetic", SampleTable(Region, CompositeIndex)),
   nutrients |-> Data("synthetic",
                      SampleTable(district, <<"Average Consumption adequacy/Iron">>))]

load_data_each(index_csv, nutrients_csv, dedup) ==
  [raised |-> "",
   warning |-> MissingOrEmpty(index_csv) \/ MissingOrEmpty(nutrients_csv),
   errors |-> <<>>,
   vulnerability |-> IF MissingOrEmpty(index_csv) THEN sample_data.vulnerability
                     ELSE Data("file", FromCsv(Get(index_csv))),
   nutrients |-> IF MissingOrEmpty(nutrients_csv) THEN sample_data.nutrients
                 ELSE Data("file", FromCsv(Get(nutrients_csv)))]

\* load_data(): dedup tells dashboard.py (TRUE) from appcopy.py (FALSE)
load_data(index_csv, nutrients_csv, dedup) ==
  LET err == IF csv_read_error(index_csv) # "" THEN csv_read_error(index_csv)
             ELSE csv_read_error(nutrients_csv)
      v0 == FromCsv(Get(index_csv))
      v == IF dedup THEN DropDuplicates(v0, Region) ELSE v0
      n == FromCsv(Get(nutrients_csv))
  IN IF err = "FileNotFoundError" THEN sample_data
     ELSE IF err # ""
     THEN [raised |-> err, warning |-> FALSE, errors |-> <<>>,
           vulnerability |-> NoneData, nutrients |-> NoneData]
     ELSE IF IsEmptyDf(v) \/ IsEmptyDf(n) THEN sample_data
     ELSE [raised |-> "", warning |-> FALSE, errors |-> <<>>,
           vulnerability |-> Data("file", v), nutrients |-> Data("file", n)]

\* app.py: load_merged_nutrients(), load_merged_index()
load_merged(csv) ==
  IF csv_read_error(csv) # "" THEN NoneData ELSE Data("file", FromCsv(Get(csv)))

\* a dashboard process started in a directory with any persisted files
InitDashboard ==
  /\ disk = <<>>
  /\ index_disk = <<>>
  /\ pc = "start"
  /\ merged_index_csv \in PersistedFiles(IndexCsvSamples)
  /\ merged_nutrients_csv \in PersistedFiles(NutrientCsvSamples)
  /\ FreshKernel

\* the module-level call of load_data() in dashboard.py or appcopy.py, on
\* the first run of the script or on a rerun after the files were written:
\* st.cache_data runs the function on a miss and keeps what it returned
RunLoadData(script, dedup) ==
  /\ pc \in {"start", "written"}
  /\ consumer \in {"", script}
  /\ LET r == IF IsSome(cache) THEN Get(cache)
              ELSE load_data(merged_index_csv, merged_nutrients_csv, dedup)
     IN /\ consumer' = script
        /\ ui' = IF r.warning THEN Append(ui, "warning") ELSE ui
        /\ error' = r.raised
        /\ pc' = IF r.raised # "" THEN "crashed"
                 ELSE IF pc = "start" THEN "loaded" ELSE "reloaded"
        /\ vulnerability' = Some(r.vulnerability)
        /\ nutrients' = Some(r.nutrients)
        /\ cache' = IF r.raised # "" THEN cache ELSE Some(r)
  /\ UNCHANGED << nutrient_vars, index_vars, risk_vars, probe, report, file_idx, printed >>

DashboardLoad == RunLoadData("dashboard.py", TRUE)

AppcopyLoad == RunLoadData("appcopy.py", FALSE)

\* what the two cached loaders of app.py return and show
load_merged_both(index_csv, nutrients_csv) ==
  [raised |-> "",
   warning |-> FALSE,
   errors |-> (IF csv_read_error(nutrients_csv) # "" THEN <<"error">> ELSE <<>>)
                \o (IF csv_read_error(index_csv) # "" THEN <<"error">> ELSE <<>>),
   vulnerability |-> load_merged(index_csv),
   nutrients |-> load_merged(nutrients_csv)]

\* the two module-level loader calls of app.py
AppLoad ==
  /\ pc \in {"start", "written"}
  /\ consumer \in {"", "app.py"}
  /\ LET r == IF IsSome(cache) THEN Get(cache)
              ELSE load_merged_both(merged_index_csv, merged_nutrients_csv)
     IN /\ consumer' = "app.py"
        /\ nutrients' = Some(r.nutrients)
        /\ vulnerability' = Some(r.vulnerability)
        /\ ui' = ui \o r.errors
        /\ cache' = Some(r)
  /\ pc' = IF pc = "start" THEN "loaded" ELSE "reloaded"
  /\ UNCHANGED << nutrient_vars, index_vars, risk_vars, probe, report >>
  /\ UNCHANGED << file_idx, printed, error >>

\* a pipeline run while the dashboard process lives: it writes both merged
\* files, each with at least one row
PipelineRun ==
  /\ pc \in {"loaded", "crashed"}
  /\ consumer # ""
  /\ \E t \in {x \in IndexCsvSamples : x.rows # <<>>} :
       merged_index_csv' = Some(t)
  /\ \E t \in {x \in NutrientCsvSamples : x.rows # <<>>} :
       merged_nutrients_csv' = Some(t)
  /\ pc' = "written"
  /\ error' = ""
  /\ UNCHANGED << disk, nutrient_dfs, missing_files, cleaned, merged_nutrients >>
  /\ UNCHANGED << index_disk, dfs, merged_index >>
  /\ UNCHANGED << risk_vars, view_vars, file_idx, printed >>

\* ------------------------------ dashboard.py: the nutrition page analyses
kilocalories_col == <<"Consumption adequacy", " of ", "Kilocalories", " (", "kcal", ")">>

iron_col == <<"Average Consumption adequacy", " of ", "Iron", " (", "mg", ")">>

\* adequacy ratios in hundredths, None for NaN
Ratios == {None, Some(50), Some(70), Some(80)}

\* nutrient tables with numeric cells: a district and two adequacy ratios
\* per row, the first row of KAMPALA
RatioTables ==
  {DataFrame(<<district, kilocalories_col, iron_col>>, rows) :
     rows \in UNION {{q \in [1..n -> {"KAMPALA", "GULU"} \X Ratios \X Ratios] :
                        n = 0 \/ q[1][1] = "KAMPALA"} : n \in 0..MaxRows}}

\* the nutrition page of dashboard.py opened on a loaded nutrient table
InitNutritionPage ==
  /\ disk = <<>>
  /\ index_disk = <<>>
  /\ pc = "nutrition_page"
  /\ merged_index_csv = None
  /\ merged_nutrients_csv = None
  /\ \E t \in RatioTables :
       /\ file_idx = 1
       /\ error = ""
       /\ printed = <<>>
       /\ nutrient_dfs = <<>>
       /\ missing_files = <<>>
       /\ cleaned = <<>>
       /\ merged_nutrients = None
       /\ dfs = <<>>
       /\ merged_index = None
       /\ value = None
       /\ risk_level = ""
       /\ alert = None
       /\ adequacy = None
       /\ probe = None
       /\ report = None
       /\ consumer = ""
       /\ ui = <<>>
       /\ vulnerability = None
       /\ nutrients = Some(Data("file", t))
       /\ cache = None

\* the names in the district column on the rows whose cell in column c
\* satisfies the mask
MaskedDistricts(t, c, Mask(_)) ==
  {t.rows[r][ColIndex(t, district)] :
     r \in {q \in 1..Len(t.rows) : Mask(t.rows[q][c])}}

\* the positions of nutrient_cols: the columns naming 'adequacy'
nutrient_cols(t) ==
  {c \in 1..Len(t.cols) :
     \E b \in 1..Len(t.cols[c]) :
       t.cols[c][b] \in {"Consumption adequacy", "Average Consumption adequacy"}}

keep_overlaps(sets) == sets

\* the three set differences that give the worst status priority
remove_overlaps(sets) ==
  [severe |-> sets.severe,
   moderate |-> sets.moderate \ sets.severe,
   adequate |-> (sets.adequate \ sets.severe) \ (sets.moderate \ sets.severe)]

\* severe_deficiency_districts, moderate_deficiency_districts and
\* adequate_districts after the loop over nutrient_cols
district_sets(t) ==
  [severe |-> UNION {MaskedDistricts(t, c, severe_mask) : c \in nutrient_cols(t)},
   moderate |-> UNION {MaskedDistricts(t, c, moderate_mask) : c \in nutrient_cols(t)},
   adequate |-> UNION {MaskedDistricts(t, c, adequate_mask) : c \in nutrient_cols(t)}]

NutritionalStatusOverview ==
  /\ pc = "nutrition_page"
  /\ report = None
  /\ report' = Some([report_type |-> "Nutritional Status Overview",
                     sets |-> remove_overlaps(district_sets(Get(nutrients).df))])
  /\ UNCHANGED << nutrient_vars, index_vars, risk_vars, probe, dash_vars >>
  /\ UNCHANGED << pc, file_idx, printed, error >>

\* merged_nutrients[[district_col, kilocalories_col, iron_col]].dropna()
scatter_data(t) ==
  LET sel == SelectCols(t, <<district, kilocalories_col, iron_col>>)
      Keep(r) == \A c \in 2..3 : sel.rows[r][c] # None
  IN DataFrame(sel.cols, FilterIdx(sel.rows, Keep, 1))

\* len(df[mask]) for a mask over the (kilocalorie, iron) cells of a row
CountRows(sd, Mask(_, _)) ==
  Cardinality({r \in 1..Len(sd.rows) : Mask(sd.rows[r][2], sd.rows[r][3])})

hidden_hunger_mask(k, i) == Ge(k, 80) /\ Lt(i, 80)
severe_malnutrition_mask(k, i) == Lt(k, 60) /\ Lt(i, 60)
optimal_nutrition_mask(k, i) == Ge(k, 80) /\ Ge(i, 80)

\* the Nutrition_Status label after the three .loc assignments
Nutrition_Status(k, i) ==
  IF Lt(k, 80) /\ Lt(i, 80) THEN "Severe Malnutrition"
  ELSE IF Ge(k, 80) /\ Lt(i, 80) THEN "Hidden Hunger"
  ELSE IF Ge(k, 80) /\ Ge(i, 80) THEN "Optimal Nutrition"
  ELSE "Energy Deficiency"

HiddenHungerAnalysis ==
  /\ pc = "nutrition_page"
  /\ report = None
  /\ LET sd == scatter_data(Get(nutrients).df)
     IN /\ Len(sd.rows) > 0
        /\ report' =
             Some([report_type |-> "Hidden Hunger Analysis",
                   hh_count |-> CountRows(sd, hidden_hunger_mask),
                   severe_count |-> CountRows(sd, severe_malnutrition_mask),
                   optimal_count |-> CountRows(sd, optimal_nutrition_mask),
                   labels |-> [r \in 1..Len(sd.rows) |->
                                 Nutrition_Status(sd.rows[r][2], sd.rows[r][3])]])
  /\ UNCHANGED << nutrient_vars, index_vars, risk_vars, probe, dash_vars >>
  /\ UNCHANGED << pc, file_idx, printed, error >>

Init == InitNutrient \/ InitIndex \/ InitRisk \/ InitDashboard \/ InitMerge
          \/ InitNutritionPage

Next ==
  \/ LoadFile
  \/ MergeCell
  \/ ShowCell
  \/ PersistCell
  \/ RenameCell
  \/ MergePermuted
  \/ NextRun
  \/ MergeWithItself
  \/ IndexLoadFile
  \/ IndexMergeCell
  \/ Classify
  \/ AlertSystem
  \/ NutritionOverview
  \/ AlertStatusReport
  \/ NutritionalStatusOverview
  \/ HiddenHungerAnalysis
  \/ DashboardLoad
  \/ AppcopyLoad
  \/ AppLoad
  \/ PipelineRun

Spec == Init /\ [][Next]_vars


\* ================================================================ claims
\* a session that runs the nutrient cells
\* a session that runs the index cell
IndexRun == Len(index_disk) > 0
\* the load loop of the nutrient cells has run to its end
Loaded == NutrientRun /\ file_idx > Len(csv_files)
\* In[4] has bound merged_nutrients and In[9] has not yet run
Merged == IsSome(merged_nutrients) /\ pc \in {"show", "persist", "rename"}

HasEntry(d, name) == \E a \in 1..Len(d) : d[a].name = name
KeysOf(t, key) == Range(Column(t, key))
Ascending(cells) == \A r \in 1..(Len(cells) - 1) : StrLess(cells[r], cells[r + 1])
Distinct(cells) ==
  \A r1, r2 \in 1..Len(cells) : r1 # r2 => cells[r1] # cells[r2]

\* the absent ones of the first n configured paths, in configuration order
AbsentPrefix(n) ==
  LET Keep(a) == ~disk[a].exists IN FilterIdx(SubSeq(csv_files, 1, n), Keep, 1)

\* C1: the load loop never fails on an absent file; after each iteration
\* missing_files is exactly the absent paths seen so far, each once and in
\* configuration order, and every present file seen so far is loaded.
C1_MissingFilesExact ==
  NutrientRun =>
    /\ missing_files = AbsentPrefix(file_idx - 1)
    /\ \A a \in 1..(file_idx - 1) :
         disk[a].exists => HasEntry(nutrient_dfs, Base(csv_files[a]))
    /\ (pc = "crashed" /\ file_idx <= Len(csv_files)) => disk[file_idx].exists

C1_Witness ==
  /\ pc = "merge"
  /\ Len(missing_files) >= 1
  /\ Len(nutrient_dfs) >= 1

\* C2: no run is ended by an exception raised for one source file that is
\* absent, unparsable, or (index file) not two columns wide.
C2_NoSourceAbortsRun ==
  error \notin {"FileNotFoundError", "ParserError", "ValueError"}

\* the outer join keeps every key of every input, and where input a has no
\* row for the key of a merged row, that row holds NaN in a's value column
OuterJoinComplete(m, inputs, key, mkey) ==
  \A a \in 1..Len(inputs) :
    /\ HasCol(m, inputs[a].cols[2])
    /\ KeysOf(inputs[a], key) \subseteq KeysOf(m, mkey)
    /\ \A r \in 1..Len(m.rows) :
         m.rows[r][ColIndex(m, mkey)] \notin KeysOf(inputs[a], key)
           => m.rows[r][ColIndex(m, inputs[a].cols[2])] = NaN

\* C3: the merged table (nutrients and index alike) has every key of every
\* table handed to the merge, and the missing marker NaN wherever a table
\* has no row for a key.
C3_OuterJoinKeepsKeys ==
  /\ Merged => OuterJoinComplete(Get(merged_nutrients), dfs_to_merge(cleaned),
                                 district, district)
  /\ IsSome(merged_index) => OuterJoinComplete(Get(merged_index), dfs, Category, Region)

C3_Witness ==
  /\ IsSome(merged_index)
  /\ Len(dfs) = NumIndexFiles
  /\ \E r \in 1..Len(Get(merged_index).rows) :
       /\ Get(merged_index).rows[r][2] = NaN
       /\ Get(merged_index).rows[r][1] \notin KeysOf(dfs[1], Category)
  /\ \E r \in 1..Len(Get(merged_index).rows) :
       /\ Get(merged_index).rows[r][3] = NaN
       /\ Get(merged_index).rows[r][1] \notin KeysOf(dfs[2], Category)

\* C4: the districts of consecutive rows of the merged nutrient table are
\* strictly ascending (sorted, no district twice).
C4_MergedStrictlyAscending ==
  IsSome(merged_nutrients) => Ascending(Column(Get(merged_nutrients), district))

C4_Witness ==
  /\ pc = "persist"
  /\ Len(Get(merged_nutrients).rows) >= 2
  /\ \E a \in 1..Len(disk) :
       /\ disk[a].cols = MainShape.cols
       /\ Len(disk[a].rows) = 2
       /\ StrLess(disk[a].rows[2][1], disk[a].rows[1][1])
  /\ \E a \in 1..Len(disk) :
       /\ disk[a].cols = MainShape.cols
       /\ Len(disk[a].rows) = 2
       /\ disk[a].rows[2][1] = disk[a].rows[1][1]

\* the region names on the rows of the index files that were relabelled
AllRegions == UNION {KeysOf(dfs[a], Category) : a \in 1..Len(dfs)}

\* C5: merged_index.csv has one row per distinct region of the index files.
C5_OneRowPerRegion ==
  (IndexRun /\ IsSome(merged_index_csv)) =>
    /\ Distinct(Column(Get(merged_index_csv), Region))
    /\ Len(Get(merged_index_csv).rows) = Cardinality(AllRegions)

\* "Average Consumption adequacy of {display_name} ({unit})" for the
\* indicator a file is named after
CanonicalName(indicator) ==
  <<"Average Consumption adequacy", " of ">> \o display_name[indicator]
    \o (IF indicator \in DOMAIN units
        THEN (<<" (">> \o units[indicator]) \o <<")">>
        ELSE <<>>)

\* the indicator of the configured path at position a: 'Iron' for
\* 'nutrients/Iron.csv'
Indicator(a) == <<csv_files[a][2]>>

\* C6: every merged file's value column carries the canonical name made of
\* the display name and the unit registered for its indicator.
C6_CanonicalColumnNames ==
  (NutrientRun /\ Merged) =>
    \A a \in 1..Len(csv_files) :
      HasEntry(cleaned, Base(csv_files[a]))
        => HasCol(Get(merged_nutrients), CanonicalName(Indicator(a)))

\* the kilocalorie source is among the merged tables
KilocaleriesMerged ==
  \E a \in 1..Len(csv_files) :
    Indicator(a) = <<"Kilocaleries">> /\ HasEntry(cleaned, Base(csv_files[a]))

\* C7: with the kilocalorie source merged, merged_nutrients.csv names its
\* column "Consumption adequacy of Kilocaleries (kcal)" and has no column
\* "Average Consumption adequacy of Kilocaleries (kcal)".
C7_KilocaleriesRenamedInFile ==
  (IsSome(merged_nutrients_csv) /\ KilocaleriesMerged) =>
    /\ HasCol(Get(merged_nutrients_csv), KilocaleriesNew)
    /\ ~HasCol(Get(merged_nutrients_csv), KilocaleriesOld)

\* no loaded table has both a 'district' column and a value column
NoMergeable == cleaned_of(valid_dfs(nutrient_dfs)) = <<>>

\* C8: with no mergeable table the run builds no merged table, writes no
\* merged_nutrients.csv and ends without an unhandled error.
C8_NoDataEndsCleanly ==
  (Loaded /\ pc \notin {"merge"} /\ NoMergeable) =>
    /\ merged_nutrients = None
    /\ merged_nutrients_csv = None
    /\ error = ""

\* position in csv_files of the file a dict entry is named after
SourceOf(name) == CHOOSE a \in 1..Len(csv_files) : Base(csv_files[a]) = name

\* the cleaned table t holds, per district of the source table src, the
\* value of the first source row of that district and nothing else
KeepsFirst(t, src) ==
  LET kc == ColIndex(src, district_col(src))
      vc == Len(src.cols)
  IN /\ t.cols[1] = district
     /\ Distinct(Column(t, district))
     /\ KeysOf(t, district) = {src.rows[j][kc] : j \in 1..Len(src.rows)}
     /\ \A r \in 1..Len(t.rows) :
          \E j \in 1..Len(src.rows) :
            /\ src.rows[j][kc] = t.rows[r][1]
            /\ \A b \in 1..(j - 1) : src.rows[b][kc] # t.rows[r][1]
            /\ t.rows[r][2] = src.rows[j][vc]

\* the merged table holds t's value on every row of a district of t
CarriedInto(m, t) ==
  \A r \in 1..Len(t.rows), q \in 1..Len(m.rows) :
    m.rows[q][ColIndex(m, district)] = t.rows[r][1]
      => m.rows[q][ColIndex(m, t.cols[2])] = t.rows[r][2]

\* C9: every cleaned table has each district of its source exactly once
\* (names compared as exact strings), with the value of the first source
\* row of that district, and that value is the one in the merged table.
C9_CleanedKeepsFirst ==
  \A e \in 1..Len(cleaned) :
    /\ NutrientRun =>
         KeepsFirst(cleaned[e].df, FromCsv(disk[SourceOf(cleaned[e].name)]))
    /\ Merged => CarriedInto(Get(merged_nutrients), cleaned[e].df)

C9_Witness ==
  /\ pc = "persist"
  /\ NutrientRun
  /\ \E e \in 1..Len(cleaned) :
       LET src == disk[SourceOf(cleaned[e].name)]
       IN /\ src.cols = MainShape.cols
          /\ Len(src.rows) = 2
          /\ src.rows[1][1] = src.rows[2][1]
          /\ src.rows[1][2] # src.rows[2][2]
          /\ Len(cleaned[e].df.rows) = 1
  /\ \E e \in 1..Len(cleaned) :
       KeysOf(cleaned[e].df, district) = {"KAMPALA", "Kampala"}

\* C10: for a numeric value v, get_risk_level gives "High" exactly when
\* v >= 0.6, "Medium" exactly when 0.3 <= v < 0.6, "Low" exactly when
\* v < 0.3 (v in hundredths).
C10_RiskLevelThresholds ==
  (pc = "returned" /\ IsSome(value)) =>
    /\ risk_level \in {"High", "Medium", "Low"}
    /\ risk_level = "High" <=> Get(value) >= 60
    /\ risk_level = "Medium" <=> (30 <= Get(value) /\ Get(value) < 60)
    /\ risk_level = "Low" <=> Get(value) < 30

C10_Witness ==
  /\ pc = "returned"
  /\ value = Some(60)
  /\ risk_level = "High"


\* C11: the alert set shows Critical exactly for v >= 0.7 and Warning
\* exactly for 0.6 <= v < 0.7, never both; 0.6 is "High" for
\* get_risk_level and Warning only, 0.7 is Critical.
C11_AlertThresholds ==
  IsSome(alert) =>
    /\ "Critical" \in Get(alert) <=> (IsSome(value) /\ Get(value) >= 70)
    /\ "Warning" \in Get(alert)
         <=> (IsSome(value) /\ 60 <= Get(value) /\ Get(value) < 70)
    /\ Get(alert) # {"Critical", "Warning"}
    /\ (value = Some(60) /\ pc = "returned")
         => (risk_level = "High" /\ Get(alert) = {"Warning"})
    /\ value = Some(70) => Get(alert) = {"Critical"}

C11_Witness ==
  /\ pc = "returned"
  /\ value = Some(60)
  /\ risk_level = "High"
  /\ alert = Some({"Warning"})

\* C12: a ratio is adequate exactly for r >= 0.8, moderate exactly for
\* 0.6 <= r < 0.8, severe exactly for r < 0.6; exactly one mask selects
\* each ratio that is not missing.
C12_AdequacyMasks ==
  (IsSome(adequacy) /\ IsSome(value)) =>
    /\ "adequate" \in Get(adequacy) <=> Get(value) >= 80
    /\ "moderate" \in Get(adequacy) <=> (60 <= Get(value) /\ Get(value) < 80)
    /\ "severe" \in Get(adequacy) <=> Get(value) < 60
    /\ Cardinality(Get(adequacy)) = 1

C12_Witness ==
  /\ value = Some(80)
  /\ adequacy = Some({"adequate"})

\* the (district, value) pairs of one column of a table
Pairs(t, col) ==
  {<<t.rows[r][ColIndex(t, district)], t.rows[r][ColIndex(t, col)]>> :
     r \in 1..Len(t.rows)}

NonMissing(P) == {q \in P : q[2] # NaN}

\* the value column of a cleaned table
ValueCol(t) == t.cols[2]

\* C13 as stated: projecting the merged table onto the key and the value
\* column of input i and dropping the rows whose value is missing yields
\* exactly the rows of input i.
C13_RoundTripAllRows ==
  Merged =>
    \A a \in 1..Len(cleaned) :
      NonMissing(Pairs(Get(merged_nutrients), ValueCol(cleaned[a].df)))
        = Pairs(cleaned[a].df, ValueCol(cleaned[a].df))

\* C13 amended: the projection yields exactly the rows of input i whose
\* own value is not missing; a row of input i with a missing value is
\* dropped with the rows the merge filled in.
C13_RoundTripNonMissingRows ==
  Merged =>
    \A a \in 1..Len(cleaned) :
      /\ NonMissing(Pairs(Get(merged_nutrients), ValueCol(cleaned[a].df)))
           = NonMissing(Pairs(cleaned[a].df, ValueCol(cleaned[a].df)))
      /\ KeysOf(cleaned[a].df, district) \subseteq KeysOf(Get(merged_nutrients), district)

C13_Witness ==
  /\ Merged
  /\ Len(cleaned) >= 2
  /\ \E a \in 1..Len(cleaned) :
       /\ NaN \in Range(Column(cleaned[a].df, ValueCol(cleaned[a].df)))
       /\ NonMissing(Pairs(cleaned[a].df, ValueCol(cleaned[a].df))) # {}
  /\ \E a \in 1..Len(cleaned) :
       KeysOf(cleaned[a].df, district) # KeysOf(Get(merged_nutrients), district)

\* the (district, column, value) cells of a table
Cells(t) ==
  {<<t.rows[r][ColIndex(t, district)], t.cols[c], t.rows[r][c]>> :
     r \in 1..Len(t.rows), c \in 1..Len(t.cols)}

\* C14: merging the same tables in any order, then sorting, gives the same
\* districts in the same row order and the same value in every cell; only
\* the order of the columns may differ.
C14_MergeOrderIndependent ==
  pc = "remerged" =>
    /\ Column(Get(probe), district) = Column(Get(merged_nutrients), district)
    /\ Cells(Get(probe)) = Cells(Get(merged_nutrients))

C14_Witness ==
  /\ pc = "remerged"
  /\ Get(probe).cols # Get(merged_nutrients).cols
  /\ \E a, b \in 1..Len(cleaned) :
       KeysOf(cleaned[a].df, district) # KeysOf(cleaned[b].df, district)

\* C15 as stated: merging the merged table with itself on the key yields
\* the merged table again.
C15_SelfMergeIsIdentity ==
  pc = "selfmerged" => Get(probe) = Get(merged_nutrients)

\* the names of a table's columns other than the key, each with a suffix
Suffixed(t, sfx) ==
  [a \in 1..Len(other_cols(t)) |-> other_cols(t)[a] \o <<sfx>>]

\* C15 amended: merging the merged table with itself on the key adds no
\* row and loses none (one row per district, in the same order), but every
\* value column appears twice, suffixed _x and _y, both copies holding
\* the values of the original column.
C15_SelfMergeDoublesColumns ==
  pc = "selfmerged" =>
    LET m == Get(merged_nutrients)
        s == Get(probe)
    IN /\ Column(s, district) = Column(m, district)
       /\ s.cols = (<<district>> \o Suffixed(m, "_x")) \o Suffixed(m, "_y")
       /\ \A c \in 1..Len(other_cols(m)) :
            /\ Column(s, other_cols(m)[c] \o <<"_x">>) = Column(m, other_cols(m)[c])
            /\ Column(s, other_cols(m)[c] \o <<"_y">>) = Column(m, other_cols(m)[c])

C15_Witness ==
  /\ pc = "selfmerged"
  /\ Len(Get(merged_nutrients).rows) >= 2
  /\ Len(Get(merged_nutrients).cols) >= 3
  /\ Len(Get(probe).rows) = Len(Get(merged_nutrients).rows)

\* C16: when merged_index.csv or merged_nutrients.csv is missing or empty,
\* every consumer's loader returns without raising, shows a warning and
\* hands synthetic data to the page code in place of the file data.
C16_MissingTableTolerated ==
  (consumer # "" /\ (MissingOrEmpty(merged_index_csv)
                       \/ MissingOrEmpty(merged_nutrients_csv))) =>
    /\ pc = "loaded"
    /\ ui # <<>>
    /\ Get(vulnerability).source = "synthetic"
    /\ Get(nutrients).source = "synthetic"

\* the run has passed the load loop and has ended
RunEnded == Loaded /\ pc \in {"done", "crashed"}

\* C17: after each pipeline run the persisted merged table is the merge of
\* the sources that run loaded, and nothing of an earlier run is left: a
\* run with no mergeable source leaves no merged table behind.
C17_RunSupersedesFile ==
  RunEnded =>
    IF cleaned = <<>>
    THEN merged_nutrients_csv = None
    ELSE merged_nutrients_csv = Some(ToCsv(merged_of(dfs_to_merge(cleaned))))

\* the source table of csv_files[a] has been read and stored
Stored(a) ==
  /\ NutrientRun
  /\ file_idx > a
  /\ pc # "crashed"
  /\ disk[a].parses
  /\ HasEntry(nutrient_dfs, Base(csv_files[a]))

StoredTable(a) ==
  nutrient_dfs[CHOOSE b \in 1..Len(nutrient_dfs) :
                 nutrient_dfs[b].name = Base(csv_files[a])].df

\* a header that holds "district" or "name" in any letter case
NamesKey(col) ==
  \E b \in 1..Len(col) :
    col[b] \in {"district", "District", "DISTRICT", "name", "Name", "NAME"}

\* the position the key column is expected at
ExpectedKey(cols) ==
  IF \E a \in 1..Len(cols) : NamesKey(cols[a])
  THEN CHOOSE a \in 1..Len(cols) :
         NamesKey(cols[a]) /\ \A b \in 1..(a - 1) : ~NamesKey(cols[b])
  ELSE 2

\* C18: on a table with at least two columns the key column is the first
\* one whose name holds "district" or "name" in any letter case, whichever
\* of the two words it is, and the second column when there is none: the
\* stored table has that column's header replaced (by 'district', or by
\* the value name when it is the last column) and the other headers but
\* the last unchanged.
C18_KeyDetection ==
  \A a \in 1..Len(disk) :
    (Stored(a) /\ Len(disk[a].cols) >= 2) =>
      LET src == disk[a].cols
          k == ExpectedKey(src)
          n == Len(src)
      IN StoredTable(a).cols =
           [c \in 1..n |->
              IF c = n THEN value_col_new(Base(csv_files[a]))
              ELSE IF c = k THEN district
              ELSE src[c]]

C18_Witness ==
  \E a, b \in 1..Len(disk) :
    /\ Stored(a) /\ Stored(b)
    /\ disk[a].cols = << <<"NAME">>, <<"District", " ", "Code">>, <<"value">> >>
    /\ StoredTable(a).cols[1] = district
    /\ disk[b].cols = << <<"id">>, <<"region">>, <<"value">> >>
    /\ StoredTable(b).cols[2] = district

\* the merge cell has run
AfterMerge == pc \in {"show", "persist", "rename", "done"}

\* C19: every loaded table with at least two columns takes part in the
\* merge keyed by the column key detection selected: its cleaned table has
\* the columns 'district' and the value name, 'district' holds exactly the
\* values of the selected column, and the merged table has its value
\* column.
C19_DetectedKeyIsEntityKey ==
  \A a \in 1..Len(disk) :
    (Stored(a) /\ AfterMerge /\ Len(disk[a].cols) >= 2) =>
      LET src == FromCsv(disk[a])
          k == ExpectedKey(src.cols)
          name == Base(csv_files[a])
      IN /\ HasEntry(cleaned, name)
         /\ \A b \in 1..Len(cleaned) :
              cleaned[b].name = name =>
                /\ cleaned[b].df.cols = <<district, value_col_new(name)>>
                /\ KeysOf(cleaned[b].df, district)
                     = {src.rows[r][k] : r \in 1..Len(src.rows)}
         /\ IsSome(merged_nutrients)
         /\ \E c \in 1..Len(Get(merged_nutrients).cols) :
              Get(merged_nutrients).cols[c]
                \in {value_col_new(name),
                     Replace(value_col_new(name), "Average Consumption adequacy",
                             <<"Consumption adequacy">>)}

\* C20: when the key column is the last column of a table, the value
\* rename is skipped: the stored table keeps the column 'district' and
\* does not gain the value name.
C20_RenameSkippedOnKeyLast ==
  \A a \in 1..Len(disk) :
    (Stored(a) /\ Len(disk[a].cols) >= 2
       /\ ExpectedKey(disk[a].cols) = Len(disk[a].cols)) =>
      /\ HasCol(StoredTable(a), district)
      /\ ~HasCol(StoredTable(a), value_col_new(Base(csv_files[a])))

\* the loaded tables without the one of csv_files[a] and without the
\* merged table the merge cell adds to the dict
OthersOf(a) ==
  LET Keep(b) == nutrient_dfs[b].name \notin {Base(csv_files[a]), <<"merged_by_district">>}
  IN FilterIdx(nutrient_dfs, Keep, 1)

\* csv_files[a] was read as a table with fewer than two columns
Narrow(a) ==
  /\ NutrientRun
  /\ file_idx > a
  /\ disk[a].parses
  /\ Len(disk[a].cols) < 2

\* C21: a table with fewer than two columns is stored as it was read; it
\* has no cleaned table, the cleaned tables and the merged table are those
\* of the other loaded tables alone, and the run stops after loading only
\* when the other tables give nothing to merge.
C21_NarrowTablePassedThrough ==
  \A a \in 1..Len(disk) :
    Narrow(a) =>
      /\ (Stored(a) /\ pc \in {"merge", "show"}) =>
           StoredTable(a) = FromCsv(disk[a])
      /\ (Stored(a) /\ pc = "show") =>
           /\ ~HasEntry(cleaned, Base(csv_files[a]))
           /\ cleaned = cleaned_of(valid_dfs(OthersOf(a)))
           /\ merged_nutrients
                = IF cleaned = <<>> THEN None
                  ELSE Some(merged_of(dfs_to_merge(cleaned)))
      /\ (Loaded /\ pc = "crashed") => cleaned_of(valid_dfs(OthersOf(a))) = <<>>

C21_Witness ==
  \E a, b \in 1..Len(disk) :
    /\ Narrow(a) /\ Stored(a)
    /\ pc = "show"
    /\ disk[a].cols = << <<"district">> >>
    /\ Len(disk[a].rows) >= 1
    /\ HasEntry(cleaned, Base(csv_files[b]))

\* the tables the merge cell was given
MergeSources ==
  LET Keep(b) == nutrient_dfs[b].name # <<"merged_by_district">>
  IN FilterIdx(nutrient_dfs, Keep, 1)

Min(S) == CHOOSE x \in S : \A y \in S : x <= y
Max(S) == CHOOSE x \in S : \A y \in S : x >= y

\* the positions of the columns of t other than 'district'
NonKey(t) == {c \in 1..Len(t.cols) : t.cols[c] # district}

PhraseCols(t) ==
  {c \in NonKey(t) :
     \E b \in 1..Len(t.cols[c]) : t.cols[c][b] = "Average Consumption adequacy"}

NumericCols(t) ==
  {c \in NonKey(t) :
     \A r \in 1..Len(t.rows) : t.rows[r][c] \in NumericCells \cup {NaN}}

\* the position of the value column by the rules (a), (b), (c)
ExpectedValue(t) ==
  IF PhraseCols(t) # {} THEN Min(PhraseCols(t))
  ELSE IF NumericCols(t) # {} THEN Min(NumericCols(t))
  ELSE Max(NonKey(t))

C23_ValueNamesDistinct ==
  (NutrientRun /\ Merged /\ pc = "show") =>
       /\ \A a, b \in 1..Len(AllCsvFiles) :
            a < b =>
              /\ value_col_new(Base(AllCsvFiles[a])) # value_col_new(Base(AllCsvFiles[b]))
              /\ CanonicalName(<<AllCsvFiles[a][2]>>) # CanonicalName(<<AllCsvFiles[b][2]>>)
       /\ Distinct(Get(merged_nutrients).cols)
       /\ Len(Get(merged_nutrients).cols) = 1 + Len(cleaned)
       /\ \A e \in 1..Len(cleaned) :
            /\ cleaned[e].df.cols[2] = value_col_new(cleaned[e].name)
            /\ HasCol(Get(merged_nutrients), cleaned[e].df.cols[2])

C23_Witness ==
  /\ NutrientRun
  /\ Merged
  /\ pc = "show"
  /\ Len(cleaned) >= 2
  /\ Len(Get(merged_nutrients).cols) = 3

\* C24: a composite vulnerability value gets an alert card (Critical or
\* Warning) exactly when get_risk_level returns "High" for it; a missing
\* value gets neither.
C24_AlertIffHigh ==
  (pc = "returned" /\ IsSome(alert)) =>
    /\ Get(alert) # {} <=> risk_level = "High"
    /\ risk_level \in {"Medium", "Low"} => Get(alert) = {}
    /\ value = None => (Get(alert) = {} /\ risk_level = "Low")

C24_Witness ==
  /\ pc = "returned"
  /\ value = Some(65)
  /\ alert = Some({"Warning"})
  /\ risk_level = "High"

\* C25: the Executive Summary and the Alert Status report give a region the
\* same risk level: the label get_risk_level returns for its composite
\* index is the one group of the Alert Status report it is in, also when
\* the index is missing.
C25_ReportsAgree ==
  (pc = "returned" /\ IsSome(report) /\ Get(report).report_type = "Alert Status") =>
    Get(report).groups = {risk_level}

\* the nutrition page has shown its overview of the table t
OverviewShown ==
  /\ pc = "nutrition_page"
  /\ IsSome(report)
  /\ Get(report).report_type = "Nutritional Status Overview"

\* the non-missing ratios of district d over all rows and nutrient columns
RatiosOf(t, d) ==
  {t.rows[r][c] : r \in {q \in 1..Len(t.rows) : t.rows[q][1] = d}, c \in {2, 3}}
    \ {None}

\* the worst status among a non-empty set of ratios
WorstStatus(R) ==
  IF \E x \in R : Get(x) < 60 THEN "severe"
  ELSE IF \E x \in R : Get(x) >= 60 /\ Get(x) < 80 THEN "moderate"
  ELSE "adequate"

\* C26: after overlap removal the severe, moderate and adequate district
\* sets are pairwise disjoint; a district with a non-missing ratio is in
\* exactly the set of its worst status over all nutrient columns, a
\* district with none is in no set; the three counts add up to at most the
\* number of distinct districts.
C26_DistrictSetsPartition ==
  OverviewShown =>
    LET t == Get(nutrients).df
        S == Get(report).sets
    IN /\ S.severe \cap S.moderate = {}
       /\ S.severe \cap S.adequate = {}
       /\ S.moderate \cap S.adequate = {}
       /\ \A d \in KeysOf(t, district) :
            IF RatiosOf(t, d) = {}
            THEN d \notin (S.severe \cup S.moderate) \cup S.adequate
            ELSE /\ d \in S.severe <=> WorstStatus(RatiosOf(t, d)) = "severe"
                 /\ d \in S.moderate <=> WorstStatus(RatiosOf(t, d)) = "moderate"
                 /\ d \in S.adequate <=> WorstStatus(RatiosOf(t, d)) = "adequate"
       /\ Cardinality(S.severe) + Cardinality(S.moderate) + Cardinality(S.adequate)
            <= Cardinality(KeysOf(t, district))

C26_Witness ==
  /\ OverviewShown
  /\ Get(report).sets.severe = {"KAMPALA"}
  /\ Get(report).sets.moderate = {"GULU"}
  /\ Get(nutrients).df.rows
       = << <<"KAMPALA", Some(50), Some(80)>>, <<"GULU", Some(80), Some(70)>> >>

\* the number of rows that carry the label
Labelled(labels, l) == Cardinality({r \in 1..Len(labels) : labels[r] = l})

\* C27: in the hidden-hunger analysis each of the metrics "Severe
\* Malnutrition", "Hidden Hunger" and "Optimal Nutrition" shows the number
\* of districts that carry that Nutrition_Status label.
C27_MetricsMatchLabels ==
  (IsSome(report) /\ Get(report).report_type = "Hidden Hunger Analysis") =>
    /\ Get(report).hh_count = Labelled(Get(report).labels, "Hidden Hunger")
    /\ Get(report).optimal_count = Labelled(Get(report).labels, "Optimal Nutrition")
    /\ Get(report).severe_count = Labelled(Get(report).labels, "Severe Malnutrition")

\* load_data of dashboard.py or appcopy.py has returned
LoadDataReturned ==
  /\ pc \in {"loaded", "reloaded"}
  /\ consumer \in {"dashboard.py", "appcopy.py"}

\* C28: the two tables load_data returns are both read from the persisted
\* files or both synthetic, whichever file is missing or empty.
C28_AllOrNothing ==
  LoadDataReturned =>
    \/ Get(vulnerability).source = "file" /\ Get(nutrients).source = "file"
    \/ Get(vulnerability).source = "synthetic" /\ Get(nutrients).source = "synthetic"

C28_Witness ==
  /\ pc = "loaded"
  /\ consumer = "dashboard.py"
  /\ merged_nutrients_csv = None
  /\ IsSome(merged_index_csv)
  /\ Get(merged_index_csv).rows # <<>>
  /\ Get(vulnerability).source = "synthetic"
  /\ Get(nutrients).source = "synthetic"

\* C29: a load made after a pipeline run has written both merged files
\* returns the content of those files, whatever an earlier load returned.
C29_LoadReflectsLatestRun ==
  pc = "reloaded" =>
    /\ Get(nutrients) = Data("file", FromCsv(Get(merged_nutrients_csv)))
    /\ Get(vulnerability).source = "file"
    /\ Get(vulnerability).df
         \in {FromCsv(Get(merged_index_csv)),
              DropDuplicates(FromCsv(Get(merged_index_csv)), Region)}

\* the positions of the rows of t that are the first of their region
FirstOfRegion(t) ==
  {r \in 1..Len(t.rows) : \A q \in 1..(r - 1) : t.rows[q][1] # t.rows[r][1]}

\* C30: the vulnerability table dashboard.py loads from the file has each
\* region once; the row kept is the region's first row in the file, with
\* the cells it has in the file, and the kept rows are in file order.
C30_LoadedRegionsUnique ==
  (pc = "loaded" /\ consumer = "dashboard.py"
     /\ Get(vulnerability).source = "file") =>
    LET f == FromCsv(Get(merged_index_csv))
        v == Get(vulnerability).df
    IN /\ v.cols = f.cols
       /\ Distinct(Column(v, Region))
       /\ Range(v.rows) = {f.rows[r] : r \in FirstOfRegion(f)}
       /\ \A a, b \in 1..Len(v.rows) :
            a < b => \E q, r \in FirstOfRegion(f) :
                       q < r /\ f.rows[q] = v.rows[a] /\ f.rows[r] = v.rows[b]

C30_Witness ==
  /\ pc = "loaded"
  /\ consumer = "dashboard.py"
  /\ Get(vulnerability).source = "file"
  /\ Len(Get(merged_index_csv).rows) = 2
  /\ Get(vulnerability).df.rows = << <<"KAMPALA", "0.11">> >>

====
